---- MODULE Spec2Model ----
(***************************************************************************)
(* File integrity checker (src/file_integrity_checker.py): the            *)
(* FileIntegrityChecker class as a state machine.  One checker instance,  *)
(* its in-memory database, the store file it persists to, one external    *)
(* file used by export/import, and the tracked files of the file system.  *)
(***************************************************************************)
EXTENDS Integers, Sequences, FiniteSets, TLC

VARIABLES
    fs,          \* file system: absolute path -> [exists, content, readable]
    disk,        \* content of the store file (self.database_path)
    ext,         \* content of the external file export/import work on
    database,    \* self.database, the in-memory store
    now,         \* the reading of datetime.now()
    added,       \* history: path -> content hashed by the add_file that made the record
    verifies,    \* history: path -> hash-computing verify_file calls since that add_file
    lastCheck,   \* history: path -> outcome of the latest hash-computing verify_file
    sinceAdd,    \* history: path -> outcome of the latest hash-computing verify_file since that add_file
    removed,     \* history: paths whose record remove_file deleted and nothing re-created
    other        \* a second checker instance on the same store file: [pc, database, value]

vars == <<fs, disk, ext, database, now, added, verifies, lastCheck, sinceAdd, removed, other>>

-----------------------------------------------------------------------------
(* Bounds *)

\* datetime.now() reads 0..MaxNow
MaxNow == 1
\* verify_file is explored while a record's check_count is below MaxCount
MaxCount == 3

-----------------------------------------------------------------------------
(* Python dictionaries as functions *)

EmptyDict == <<>>

DictGet(d, k, default) == IF k \in DOMAIN d THEN d[k] ELSE default

DictSet(d, k, v) == [x \in DOMAIN d \cup {k} |-> IF x = k THEN v ELSE d[x]]

\* del that leaves the key in place
DictDel_kept(d, k) == d

DictDel(d, k) == [x \in DOMAIN d \ {k} |-> d[x]]

\* an update in which the keys already in d keep their values
DictUpdate_keeping(d, e) ==
    [x \in DOMAIN d \cup DOMAIN e |-> IF x \in DOMAIN d THEN d[x] ELSE e[x]]

\* d.update(e)
DictUpdate(d, e) == [x \in DOMAIN d \cup DOMAIN e |-> IF x \in DOMAIN e THEN e[x] ELSE d[x]]

-----------------------------------------------------------------------------
(* Paths: a path is the sequence of its components, "/" first when absolute *)

Cwd == <<"/", "d">>

isabs(path) == Len(path) > 0 /\ path[1] = "/"

RECURSIVE normparts(_, _)
\* os.path.normpath on the components after the root: "." is dropped and
\* ".." removes the component before it
normparts(done, rest) ==
    IF rest = <<>> THEN done
    ELSE IF Head(rest) = "." THEN normparts(done, Tail(rest))
    ELSE IF Head(rest) = ".."
         THEN normparts(IF done = <<>> THEN done ELSE SubSeq(done, 1, Len(done) - 1),
                        Tail(rest))
    ELSE normparts(Append(done, Head(rest)), Tail(rest))

abspath(path) ==
    LET full == IF isabs(path) THEN path ELSE Cwd \o path
    IN  <<"/">> \o normparts(<<>>, Tail(full))

F1 == <<"/", "d", "f1">>
F2 == <<"/", "d", "f2">>

\* the spellings the calls are made with
Spellings == {<<"f1">>, <<"/", "d", ".", "f1">>, <<"sub", "..", "f2">>}

Files == {abspath(s) : s \in Spellings}

-----------------------------------------------------------------------------
(* File contents and digests *)

Contents == {"hello", "bye"}

Descriptions == {"cfg"}

st_size(content) == IF content = "hello" THEN 5 ELSE 3

NoFile == [exists |-> FALSE, content |-> "", readable |-> FALSE]

\* hashlib.new(algorithm) raises ValueError for any other name
SupportedAlgorithms == {"sha256", "md5"}

\* hexdigest of content under algorithm: different contents and different
\* algorithms give different digests
hexdigest(algorithm, content) == <<algorithm, content>>

None == <<>>

exists(file_path) == fs[file_path].exists

\* a digest that is never fed the chunks of the file
calculate_file_hash_unread(file_path, algorithm) ==
    IF algorithm \notin SupportedAlgorithms THEN None
    ELSE IF ~fs[file_path].exists \/ ~fs[file_path].readable THEN None
    ELSE hexdigest(algorithm, "")

calculate_file_hash(file_path, algorithm) ==
    IF algorithm \notin SupportedAlgorithms THEN None
    ELSE IF ~fs[file_path].exists \/ ~fs[file_path].readable THEN None
    ELSE hexdigest(algorithm, fs[file_path].content)

-----------------------------------------------------------------------------
(* Store files *)

Absent == [kind |-> "absent", doc |-> EmptyDict]
Garbage == [kind |-> "garbage", doc |-> EmptyDict]

json_dump(obj) == [kind |-> "json", doc |-> obj]

\* json.load of a file's content raises JSONDecodeError unless it is JSON, and
\* open raises IOError when there is no file
Parses(file) == file.kind = "json"

\* _load_database at time t: the parsed file when it parses, a fresh store otherwise
load_database(file, t) ==
    IF file.kind = "json" THEN file.doc
    ELSE [files |-> EmptyDict, metadata |-> [created |-> t]]

\* How a write of a file goes: it succeeds, open fails (no permission) and leaves
\* the file as it was, or open truncates the file and the write fails (disk full)
WriteModes == {"ok", "readonly", "full"}

\* a save that first takes over the records the store file holds
save_database_merging(db, d, mode) ==
    IF "metadata" \notin DOMAIN db
    THEN [database |-> db, disk |-> d, result |-> "KeyError"]
    ELSE LET db1 == DictSet(db, "metadata", DictSet(db["metadata"], "last_updated", now))
             held == IF d.kind = "json" THEN DictGet(d.doc, "files", EmptyDict) ELSE EmptyDict
             db2 == IF "files" \in DOMAIN db1
                    THEN DictSet(db1, "files", DictUpdate(held, db1["files"]))
                    ELSE db1
         IN  CASE mode = "ok" ->
                    [database |-> db2, disk |-> json_dump(db2), result |-> "True"]
               [] mode = "readonly" ->
                    [database |-> db1, disk |-> d, result |-> "False"]
               [] OTHER ->
                    [database |-> db1, disk |-> Garbage, result |-> "False"]

\* _save_database on in-memory store db with store file content d, when the
\* write goes as mode: [database, disk, result]
save_database(db, d, mode) ==
    IF "metadata" \notin DOMAIN db
    THEN [database |-> db, disk |-> d, result |-> "KeyError"]
    ELSE LET db1 == DictSet(db, "metadata", DictSet(db["metadata"], "last_updated", now))
         IN  CASE mode = "ok" ->
                    [database |-> db1, disk |-> json_dump(db1), result |-> "True"]
               [] mode = "readonly" ->
                    [database |-> db1, disk |-> d, result |-> "False"]
               [] OTHER ->
                    [database |-> db1, disk |-> Garbage, result |-> "False"]

-----------------------------------------------------------------------------
(* The operations, as functions of the in-memory store db and the store   *)
(* file content d; each gives the store and file after it and its result. *)

Unset == "unset"

HasFiles(db) == "files" \in DOMAIN db

\* self.database["files"][file_path] = rec
SetRecord(db, file_path, rec) == DictSet(db, "files", DictSet(db["files"], file_path, rec))

\* a record that starts with no check counted
file_info_unchecked(file_path, description) ==
    [hash |-> calculate_file_hash(file_path, "sha256"),
     algorithm |-> "sha256",
     size |-> st_size(fs[file_path].content),
     added_date |-> now,
     last_checked |-> now,
     description |-> description,
     check_count |-> 0,
     status |-> "verified"]

file_info(file_path, description) ==
    [hash |-> calculate_file_hash(file_path, "sha256"),
     algorithm |-> "sha256",
     size |-> st_size(fs[file_path].content),
     added_date |-> now,
     last_checked |-> now,
     description |-> description,
     check_count |-> 1,
     status |-> "verified"]

\* add_file: [database, disk, value, assigned]
add_file_on(db, d, path, description, mode) ==
    LET file_path == abspath(path)
        same == [database |-> db, disk |-> d, assigned |-> FALSE]
    IN  IF ~exists(file_path) THEN same @@ [value |-> "False"]
        ELSE IF calculate_file_hash(file_path, "sha256") = None THEN same @@ [value |-> "False"]
        ELSE IF ~HasFiles(db) THEN same @@ [value |-> "KeyError"]
        ELSE LET sv == save_database(SetRecord(db, file_path, file_info(file_path, description)), d, mode)
             IN  [database |-> sv.database, disk |-> sv.disk, assigned |-> TRUE,
                  value |-> sv.result]

\* a match that leaves the status as it was
matched_keeps_status(rec) == rec

\* a match that clears the mark of the earlier mismatch
matched_clears(rec) == DictDel(DictSet(rec, "status", "verified"), "tampered_date")

\* The record of a verify_file call that found the digest equal to the stored one
matched(rec) == DictSet(rec, "status", "verified")

\* a mismatch that also rewrites the description
mismatched_annotated(rec) ==
    DictSet(DictSet(DictSet(rec, "status", "tampered"), "tampered_date", now),
            "description", "tampered")

\* a mismatch that only stamps the record
mismatched_unflagged(rec) == DictSet(rec, "tampered_date", now)

\* The record of a verify_file call that found the digest different
mismatched(rec) == DictSet(DictSet(rec, "status", "tampered"), "tampered_date", now)

\* a check that is not counted
checked_uncounted(stored_info) == DictSet(stored_info, "last_checked", now)

\* Lines 103-104: last_checked and check_count of a record whose digest was computed
checked(stored_info) ==
    DictSet(DictSet(stored_info, "last_checked", now),
            "check_count", DictGet(stored_info, "check_count", 0) + 1)

\* an early return that saves the store first
unchanged_saved(db, d, value) ==
    LET sv == save_database(db, d, "ok")
    IN  [database |-> sv.database, disk |-> sv.disk, info |-> EmptyDict, value |-> value]

\* verify_file returning value before line 102: nothing is written
unchanged(db, d, value) ==
    [database |-> db, disk |-> d, info |-> EmptyDict, value |-> value]

\* a digest always computed with the default algorithm
record_algorithm_default(stored_info) == "sha256"

\* Line 97: the algorithm the current digest is computed with
record_algorithm(stored_info) == DictGet(stored_info, "algorithm", "sha256")

\* verify_file: [database, disk, value, info]
verify_file_on(db, d, path, mode) ==
    LET file_path == abspath(path)
    IN  IF ~HasFiles(db) THEN unchanged(db, d, "KeyError")
        ELSE IF file_path \notin DOMAIN db["files"] THEN unchanged(db, d, "unknown")
        ELSE IF ~exists(file_path) THEN unchanged(db, d, "missing")
        ELSE LET stored_info == db["files"][file_path]
                 current_hash == calculate_file_hash(file_path, record_algorithm(stored_info))
                 rec == checked(stored_info)
             IN  IF current_hash = None THEN unchanged(db, d, "error")
                 ELSE IF "hash" \notin DOMAIN stored_info
                 THEN [database |-> SetRecord(db, file_path, rec), disk |-> d,
                       info |-> EmptyDict, value |-> "KeyError"]
                 ELSE IF current_hash = stored_info["hash"]
                 THEN LET sv == save_database(SetRecord(db, file_path, matched(rec)), d, mode)
                      IN  [database |-> sv.database, disk |-> sv.disk,
                           value |-> IF sv.result = "KeyError" THEN "KeyError" ELSE "verified",
                           info |-> [hash |-> current_hash, last_checked |-> now]]
                 ELSE LET sv == save_database(SetRecord(db, file_path, mismatched(rec)), d, mode)
                      IN  [database |-> sv.database, disk |-> sv.disk,
                           value |-> IF sv.result = "KeyError" THEN "KeyError" ELSE "tampered",
                           info |-> [expected_hash |-> stored_info["hash"],
                                     current_hash |-> current_hash,
                                     tampered_date |-> now]]

\* remove_file: [database, disk, value]
remove_file_on(db, d, path, mode) ==
    LET file_path == abspath(path)
    IN  IF ~HasFiles(db) THEN [database |-> db, disk |-> d, value |-> "KeyError"]
        ELSE IF file_path \in DOMAIN db["files"]
        THEN LET sv == save_database(DictSet(db, "files", DictDel(db["files"], file_path)), d, mode)
             IN  [database |-> sv.database, disk |-> sv.disk, value |-> sv.result]
        ELSE [database |-> db, disk |-> d, value |-> "False"]

\* an export of what list_files shows of each record
export_listing(db, file, mode) ==
    CASE mode = "ok" ->
            json_dump(IF HasFiles(db)
                      THEN DictSet(db, "files",
                               [p \in DOMAIN db["files"] |->
                                   [x \in DOMAIN db["files"][p] \ {"algorithm", "tampered_date"}
                                       |-> db["files"][p][x]]])
                      ELSE db)
      [] mode = "readonly" -> file
      [] OTHER -> Garbage

\* export_database when the write of the external file goes as mode: the file after it
export_database_on(db, file, mode) ==
    CASE mode = "ok" -> json_dump(db)
      [] mode = "readonly" -> file
      [] OTHER -> Garbage

\* import_database: [database, disk, value, loaded]
import_database_on(db, d, file, merge, mode) ==
    IF ~Parses(file)
    THEN [database |-> db, disk |-> d, value |-> "False", loaded |-> FALSE]
    ELSE LET imported_data == file.doc
         IN  IF merge /\ ~HasFiles(db)
             THEN [database |-> db, disk |-> d, value |-> "KeyError", loaded |-> FALSE]
             ELSE LET db1 == IF merge
                             THEN DictSet(db, "files",
                                      DictUpdate(db["files"],
                                                 DictGet(imported_data, "files", EmptyDict)))
                             ELSE imported_data
                      sv == save_database(db1, d, mode)
                  IN  [database |-> sv.database, disk |-> sv.disk, value |-> sv.result,
                       loaded |-> TRUE]

\* list_files raises KeyError for a record without one of the fields read with []
list_files_raises(db) ==
    \/ ~HasFiles(db)
    \/ \E p \in DOMAIN db["files"] :
            ~({"hash", "size", "added_date"} \subseteq DOMAIN db["files"][p])

\* list_files: the projection of every record
list_files_on(db) ==
    [p \in DOMAIN db["files"] |->
        LET info == db["files"][p]
        IN  [path |-> p, hash |-> info["hash"], size |-> info["size"],
             added_date |-> info["added_date"],
             last_checked |-> DictGet(info, "last_checked", "Never"),
             status |-> DictGet(info, "status", "unknown"),
             description |-> DictGet(info, "description", ""),
             check_count |-> DictGet(info, "check_count", 0)]]

-----------------------------------------------------------------------------
(* History of the calls, kept beside the program's state *)

\* The history after a verify_file call on file_path that returned value
Noted(h, file_path, value) ==
    IF value \in {"verified", "tampered"}
    THEN LET outcome == IF value = "verified" THEN "match" ELSE "mismatch"
         IN  [verifies  |-> [h.verifies EXCEPT ![file_path] = @ + 1],
              lastCheck |-> [h.lastCheck EXCEPT ![file_path] = outcome],
              sinceAdd  |-> [h.sinceAdd EXCEPT ![file_path] = outcome]]
    ELSE h

History == [verifies |-> verifies, lastCheck |-> lastCheck, sinceAdd |-> sinceAdd]

\* The paths whose record an import_database call wrote
Imported(db, file, merge) ==
    IF merge THEN DOMAIN DictGet(file.doc, "files", EmptyDict) \cap Files ELSE Files

CountsWithin(db) ==
    HasFiles(db) =>
        \A p \in DOMAIN db["files"] : DictGet(db["files"][p], "check_count", 0) <= MaxCount

-----------------------------------------------------------------------------
(* verify_all_files: verify_file on every key, in the mapping's order *)

Orders(S) == {o \in [1..Cardinality(S) -> S] : \A i, j \in 1..Cardinality(S) : o[i] = o[j] => i = j}

RECURSIVE verify_all_on(_, _, _)
\* w: [database, disk, results, history, raised]; keys: the keys still to verify
verify_all_on(w, keys, mode) ==
    IF keys = <<>> \/ w.raised THEN w
    ELSE LET file_path == Head(keys)
             r == verify_file_on(w.database, w.disk, file_path, mode)
         IN  verify_all_on(
                 [database |-> r.database, disk |-> r.disk,
                  results |-> IF r.value = "KeyError" THEN w.results
                              ELSE DictSet(w.results, file_path,
                                           [status |-> r.value, info |-> r.info]),
                  history |-> Noted(w.history, abspath(file_path), r.value),
                  raised |-> r.value = "KeyError"],
                 Tail(keys), mode)

-----------------------------------------------------------------------------
(* The files import_database is pointed at *)

TrackedRecord ==
    [hash |-> hexdigest("sha256", "hello"), algorithm |-> "sha256", size |-> 5,
     added_date |-> 0, last_checked |-> 0, description |-> "", check_count |-> 2,
     status |-> "tampered", tampered_date |-> 0]

DocTracked ==
    [files |-> (F1 :> TrackedRecord), metadata |-> [created |-> 0, last_updated |-> 0]]

DocNoMetadata == [files |-> (F2 :> TrackedRecord)]

DocNoFiles == [metadata |-> [created |-> 0]]

ExternalFiles ==
    {Absent, Garbage, json_dump(DocTracked), json_dump(DocNoMetadata), json_dump(DocNoFiles)}

\* the files imported while the clock runs: a missing one and a store
LifecycleFiles == {Absent, json_dump(DocTracked)}

\* the files imported while the clock stands still: an unparseable one and three stores
FaultFiles ==
    {Garbage, json_dump(DocTracked), json_dump(DocNoMetadata), json_dump(DocNoFiles)}

\* what the store file holds when the checker is constructed
StoreFiles == {Absent, Garbage}

\* the second instance before its constructor ran
NotStarted == [pc |-> "start", database |-> EmptyDict, value |-> "none"]

-----------------------------------------------------------------------------
(* The state after construction *)

Init ==
    /\ fs = [f \in Files |-> NoFile]
    /\ disk \in StoreFiles
    /\ ext = Absent
    /\ now = 0
    /\ database = load_database(disk, now)
    /\ added = [f \in Files |-> Unset]
    /\ verifies = [f \in Files |-> 0]
    /\ lastCheck = [f \in Files |-> "none"]
    /\ sinceAdd = [f \in Files |-> "none"]
    /\ removed = {}
    /\ other = NotStarted

-----------------------------------------------------------------------------
(* The calls.  What a call returns is the value of its function above.     *)

add_file(path, description, mode) ==
    LET r == add_file_on(database, disk, path, description, mode)
        file_path == abspath(path)
        made == r.assigned /\ r.value # "KeyError"
    IN  /\ database' = r.database
        /\ disk' = r.disk
        /\ added' = IF made THEN [added EXCEPT ![file_path] = fs[file_path].content]
                    ELSE added
        /\ verifies' = IF made THEN [verifies EXCEPT ![file_path] = 0] ELSE verifies
        /\ sinceAdd' = IF made THEN [sinceAdd EXCEPT ![file_path] = "none"] ELSE sinceAdd
        /\ removed' = IF r.assigned THEN removed \ {file_path} ELSE removed
        /\ UNCHANGED <<other, fs, ext, now, lastCheck>>

verify_file(path, mode) ==
    LET r == verify_file_on(database, disk, path, mode)
        h == Noted(History, abspath(path), r.value)
    IN  /\ CountsWithin(r.database)
        /\ database' = r.database
        /\ disk' = r.disk
        /\ verifies' = h.verifies
        /\ lastCheck' = h.lastCheck
        /\ sinceAdd' = h.sinceAdd
        /\ UNCHANGED <<other, fs, ext, now, added, removed>>

verify_all_files(mode) ==
    IF HasFiles(database)
    THEN /\ \E order \in Orders(DOMAIN database["files"]) :
               LET w == verify_all_on([database |-> database, disk |-> disk,
                                       results |-> EmptyDict, history |-> History,
                                       raised |-> FALSE], order, mode)
               IN  /\ CountsWithin(w.database)
                   /\ database' = w.database
                   /\ disk' = w.disk
                   /\ verifies' = w.history.verifies
                   /\ lastCheck' = w.history.lastCheck
                   /\ sinceAdd' = w.history.sinceAdd
         /\ UNCHANGED <<other, fs, ext, now, added, removed>>
    ELSE UNCHANGED vars

remove_file(path, mode) ==
    LET r == remove_file_on(database, disk, path, mode)
        file_path == abspath(path)
        deleted == HasFiles(database) /\ file_path \in DOMAIN database["files"]
    IN  /\ database' = r.database
        /\ disk' = r.disk
        /\ removed' = IF deleted THEN removed \cup {file_path} ELSE removed
        /\ added' = IF deleted THEN [added EXCEPT ![file_path] = Unset] ELSE added
        /\ verifies' = IF deleted THEN [verifies EXCEPT ![file_path] = 0] ELSE verifies
        /\ sinceAdd' = IF deleted THEN [sinceAdd EXCEPT ![file_path] = "none"] ELSE sinceAdd
        /\ UNCHANGED <<other, fs, ext, now, lastCheck>>

\* list_files reads the store and changes nothing
list_files == UNCHANGED vars

import_database(file, merge, mode) ==
    LET r == import_database_on(database, disk, file, merge, mode)
        written == IF r.loaded THEN Imported(database, file, merge) ELSE {}
    IN  /\ CountsWithin(r.database)
        /\ database' = r.database
        /\ disk' = r.disk
        /\ added' = [f \in Files |-> IF f \in written THEN Unset ELSE added[f]]
        /\ verifies' = [f \in Files |-> IF f \in written THEN 0 ELSE verifies[f]]
        /\ sinceAdd' = [f \in Files |-> IF f \in written THEN "none" ELSE sinceAdd[f]]
        /\ removed' = IF r.loaded /\ HasFiles(r.database)
                      THEN removed \ DOMAIN r.database["files"]
                      ELSE removed
        /\ UNCHANGED <<other, fs, ext, now, lastCheck>>

export_database(mode) ==
    /\ ext' = export_database_on(database, ext, mode)
    /\ UNCHANGED <<other, fs, disk, database, now, added, verifies, lastCheck, sinceAdd, removed>>

-----------------------------------------------------------------------------
(* The environment: the tracked files change and time passes *)

WriteFile(f, content) ==
    /\ fs[f].content # content \/ ~fs[f].exists
    /\ fs' = [fs EXCEPT ![f] = [exists |-> TRUE, content |-> content,
                                readable |-> IF fs[f].exists THEN fs[f].readable ELSE TRUE]]
    /\ UNCHANGED <<other, disk, ext, database, now, added, verifies, lastCheck, sinceAdd, removed>>

DeleteFile(f) ==
    /\ fs[f].exists
    /\ fs' = [fs EXCEPT ![f] = NoFile]
    /\ UNCHANGED <<other, disk, ext, database, now, added, verifies, lastCheck, sinceAdd, removed>>

Chmod(f) ==
    /\ fs[f].exists
    /\ fs' = [fs EXCEPT ![f].readable = ~@]
    /\ UNCHANGED <<other, disk, ext, database, now, added, verifies, lastCheck, sinceAdd, removed>>

Tick ==
    /\ now < MaxNow
    /\ now' = now + 1
    /\ UNCHANGED <<other, fs, disk, ext, database, added, verifies, lastCheck, sinceAdd, removed>>

\* the files that change while the checker runs
Changing == {F1}

Environment ==
    \/ \E f \in Changing, content \in Contents : WriteFile(f, content)
    \/ \E f \in Changing : DeleteFile(f)
    \/ \E f \in Changing : Chmod(f)

\* the calls of the checker, every write of the store file going as one of modes
Calls(modes, files) ==
    \/ \E s \in Spellings, description \in Descriptions, mode \in modes :
            add_file(s, description, mode)
    \/ \E s \in Spellings, mode \in modes : verify_file(s, mode)
    \/ \E mode \in modes : verify_all_files(mode)
    \/ \E s \in Spellings, mode \in modes : remove_file(s, mode)
    \/ list_files
    \/ \E file \in files, merge \in BOOLEAN, mode \in modes :
            import_database(file, merge, mode)

\* Writes of the store file may fail; time passes; imports of well-formed files
Next == Calls(WriteModes, LifecycleFiles) \/ Environment \/ Tick

Spec == Init /\ [][Next]_vars

\* Writes of the store file may fail; the clock stands still; imports of malformed files too
NextFaults == Calls(WriteModes, FaultFiles) \/ Environment

SpecFaults == Init /\ [][NextFaults]_vars

\* The calls up to an export_database that writes the external file; the
\* clock stands still
NextExport ==
    \/ ext = Absent /\ (Calls({"ok"}, ExternalFiles) \/ Environment)
    \/ ext = Absent /\ \E mode \in WriteModes : export_database(mode)

SpecExport == Init /\ [][NextExport]_vars

-----------------------------------------------------------------------------
(* A checker that is never pointed at an import file *)

LocalCalls(modes) ==
    \/ \E s \in Spellings, description \in Descriptions, mode \in modes :
            add_file(s, description, mode)
    \/ \E s \in Spellings, mode \in modes : verify_file(s, mode)
    \/ \E mode \in modes : verify_all_files(mode)
    \/ \E s \in Spellings, mode \in modes : remove_file(s, mode)
    \/ list_files

\* From an empty store: writes of the store file may fail; time passes
NextLocal == LocalCalls(WriteModes) \/ Environment \/ Tick

SpecLocal == Init /\ [][NextLocal]_vars

-----------------------------------------------------------------------------
(* A checker constructed on whatever the store file holds *)

\* an empty JSON object
DocEmpty == EmptyDict

\* what the store file may hold at construction: nothing, invalid syntax, or
\* JSON with or without the two mappings of a store
LoadedFiles ==
    {Absent, Garbage, json_dump(DocEmpty), json_dump(DocNoFiles),
     json_dump(DocNoMetadata), json_dump(DocTracked)}

InitLoad ==
    /\ fs = [f \in Files |-> NoFile]
    /\ disk \in LoadedFiles
    /\ ext = Absent
    /\ now = 0
    /\ database = load_database(disk, now)
    /\ added = [f \in Files |-> Unset]
    /\ verifies = [f \in Files |-> 0]
    /\ lastCheck = [f \in Files |-> "none"]
    /\ sinceAdd = [f \in Files |-> "none"]
    /\ removed = {}
    /\ other = NotStarted

NextLoad == LocalCalls({"ok"}) \/ Environment

SpecLoad == InitLoad /\ [][NextLoad]_vars

-----------------------------------------------------------------------------
(* A checker pointed at store files that other tools or older versions wrote *)

\* a record keyed by a spelling that abspath would rewrite
DocSpelled ==
    [files |-> (<<"/", "d", ".", "f1">> :> TrackedRecord),
     metadata |-> [created |-> 0, last_updated |-> 0]]

\* a record whose digest is an md5 one
DocMd5 ==
    [files |-> (F1 :> [hash |-> hexdigest("md5", "hello"), algorithm |-> "md5", size |-> 5,
                       added_date |-> 0, last_checked |-> 0, description |-> "",
                       check_count |-> 1, status |-> "verified"]),
     metadata |-> [created |-> 0, last_updated |-> 0]]

\* a record with only the fields list_files reads with []
DocLegacy ==
    [files |-> (F1 :> [hash |-> hexdigest("sha256", "hello"), size |-> 5, added_date |-> 0]),
     metadata |-> [created |-> 0, last_updated |-> 0]]

ImportFiles ==
    {Garbage, json_dump(DocSpelled), json_dump(DocMd5), json_dump(DocLegacy)}

\* Every write of the store file succeeds; time passes
NextImports == Calls({"ok"}, ImportFiles) \/ Environment \/ Tick

SpecImports == Init /\ [][NextImports]_vars

-----------------------------------------------------------------------------
(* Two invocations on the same store file: each constructs a checker, which *)
(* loads the store, and makes one add_file call.  The first is the checker  *)
(* of Init; the second is other.                                            *)

\* __init__ of the second checker: it loads what the store file holds now
construct_other ==
    /\ other.pc = "start"
    /\ other' = [pc |-> "loaded", database |-> load_database(disk, now), value |-> "none"]
    /\ UNCHANGED <<fs, disk, ext, database, now, added, verifies, lastCheck, sinceAdd, removed>>

\* add_file of the second checker, on its own in-memory store
add_file_other(path, description, mode) ==
    LET r == add_file_on(other.database, disk, path, description, mode)
    IN  /\ other.pc = "loaded"
        /\ other' = [pc |-> IF r.assigned THEN "done" ELSE "loaded",
                     database |-> r.database, value |-> r.value]
        /\ disk' = r.disk
        /\ UNCHANGED <<fs, ext, database, now, added, verifies, lastCheck, sinceAdd, removed>>

\* add_file of the first checker, once
add_file_first(path, description, mode) ==
    /\ added[abspath(path)] = Unset
    /\ add_file(path, description, mode)

\* the spellings each invocation is given
FirstSpellings == {s \in Spellings : abspath(s) = F1}
OtherSpellings == {s \in Spellings : abspath(s) = F2}

NextRace ==
    \/ \E s \in FirstSpellings, description \in Descriptions : add_file_first(s, description, "ok")
    \/ construct_other
    \/ \E s \in OtherSpellings, description \in Descriptions : add_file_other(s, description, "ok")
    \/ \E f \in Files, content \in Contents : WriteFile(f, content)
    \/ \E f \in Files : DeleteFile(f)

SpecRace == Init /\ [][NextRace]_vars

-----------------------------------------------------------------------------
(* Properties *)

Tracked(p) == HasFiles(database) /\ p \in DOMAIN database["files"]

Record(p) == database["files"][p]

\* the file at p can be hashed
Readable(p) == fs[p].exists /\ fs[p].readable

\* C1: a file added by add_file whose content now differs from the content
\* hashed by that add_file verifies as tampered, the expected hash being the
\* one add_file captured and the current hash another, whatever verify_file
\* calls came between.
C1_TamperedAgainstAddedHash ==
    \A s \in Spellings, mode \in WriteModes :
        LET p == abspath(s)
            r == verify_file_on(database, disk, s, mode)
        IN  (added[p] # Unset /\ Readable(p) /\ fs[p].content # added[p]) =>
                /\ r.value = "tampered"
                /\ r.info.expected_hash = hexdigest("sha256", added[p])
                /\ r.info.current_hash # r.info.expected_hash

\* a second tampered verdict in a row against the hash add_file captured
C1_Witness ==
    /\ Tracked(F1) /\ added[F1] # Unset
    /\ Readable(F1) /\ fs[F1].content # added[F1]
    /\ Record(F1).status = "tampered" /\ verifies[F1] >= 2
    /\ Record(F1).hash = hexdigest("sha256", added[F1])

\* C2: a file added by add_file whose content is still the content hashed
\* by that add_file, and which exists and is readable, verifies as verified,
\* and the call sets the record's status to verified.
C2_VerifiedWhenUnchanged ==
    \A s \in Spellings, mode \in WriteModes :
        LET p == abspath(s)
            r == verify_file_on(database, disk, s, mode)
        IN  (added[p] # Unset /\ Readable(p) /\ fs[p].content = added[p]) =>
                /\ r.value = "verified"
                /\ r.database["files"][p].status = "verified"

\* verified again after a mismatch, the content being the added one
C2_Witness ==
    /\ Tracked(F1) /\ added[F1] # Unset
    /\ Readable(F1) /\ fs[F1].content = added[F1]
    /\ sinceAdd[F1] = "match" /\ Record(F1).status = "verified"
    /\ "tampered_date" \in DOMAIN Record(F1)

\* C3: the check_count of a record made by add_file is 1 plus the number of
\* verify_file calls on its path since that add_file that returned verified
\* or tampered; the other outcomes leave it alone.
C3_CheckCountCountsVerifies ==
    \A p \in Files :
        added[p] # Unset => Tracked(p) /\ Record(p).check_count = 1 + verifies[p]

\* two counted verifications, and the file gone since
C3_Witness ==
    /\ Tracked(F1) /\ added[F1] # Unset /\ verifies[F1] = 2
    /\ Record(F1).check_count = 3 /\ ~fs[F1].exists

\* C4 as stated: the status of a record made by add_file is tampered exactly
\* when the latest verify_file call on its path that computed a hash found
\* a mismatch.
C4_StatusIsLastVerify ==
    \A p \in Files :
        added[p] # Unset =>
            (Record(p).status = "tampered" <=> lastCheck[p] = "mismatch")

\* C4 amended: the status of a record made by add_file is tampered exactly
\* when the latest verify_file call on its path since that add_file that
\* computed a hash found a mismatch; add_file itself sets verified.
C4_StatusIsLastVerifySinceAdd ==
    \A p \in Files :
        added[p] # Unset =>
            /\ Tracked(p)
            /\ Record(p).status \in {"verified", "tampered"}
            /\ Record(p).status = "tampered" <=> sinceAdd[p] = "mismatch"

\* a file added again after a mismatch: verified, the latest verify a mismatch
C4_Witness ==
    /\ Tracked(F1) /\ added[F1] # Unset
    /\ lastCheck[F1] = "mismatch" /\ sinceAdd[F1] = "none"
    /\ Record(F1).status = "verified"

\* C5: no verify_file call removes the tampered_date of a record, and a call
\* that returns verified leaves its value as it was while setting the status
\* to verified and counting the check.
C5_TamperedDateKept ==
    \A s \in Spellings, mode \in WriteModes :
        LET p == abspath(s)
            r == verify_file_on(database, disk, s, mode)
        IN  (Tracked(p) /\ "tampered_date" \in DOMAIN Record(p)) =>
                /\ p \in DOMAIN r.database["files"]
                /\ "tampered_date" \in DOMAIN r.database["files"][p]
                /\ r.value = "verified" =>
                     /\ r.database["files"][p].tampered_date = Record(p).tampered_date
                     /\ r.database["files"][p].status = "verified"
                     /\ r.database["files"][p].check_count
                            = DictGet(Record(p), "check_count", 0) + 1

\* verified at time 1, the mismatch of time 0 still on the record
C5_Witness ==
    /\ Tracked(F1) /\ added[F1] # Unset /\ sinceAdd[F1] = "match"
    /\ Record(F1).status = "verified" /\ Record(F1).last_checked = 1
    /\ "tampered_date" \in DOMAIN Record(F1) /\ Record(F1).tampered_date = 0

\* C6: a verify_file call that returns unknown, missing or error leaves the
\* in-memory store and the store file as they were.
C6_NoMutationWithoutHash ==
    \A s \in Spellings, mode \in WriteModes :
        LET r == verify_file_on(database, disk, s, mode)
        IN  r.value \in {"unknown", "missing", "error"} =>
                r.database = database /\ r.disk = disk

\* an unreadable tracked file (error) beside an untracked one (unknown), the
\* store file behind the in-memory store
C6_Witness ==
    /\ Tracked(F1) /\ Record(F1).check_count >= 2
    /\ fs[F1].exists /\ ~fs[F1].readable
    /\ ~Tracked(F2) /\ HasFiles(database)
    /\ disk # json_dump(database)
    /\ verify_file_on(database, disk, <<"f1">>, "ok").value = "error"
    /\ verify_file_on(database, disk, <<"sub", "..", "f2">>, "ok").value = "unknown"

\* C7: from remove_file on a tracked path until a record for the path is
\* written again, the store holds no record for it and verify_file returns
\* unknown, whatever the file on disk.
C7_UnknownAfterRemove ==
    \A s \in Spellings, mode \in WriteModes :
        (abspath(s) \in removed /\ HasFiles(database)) =>
            /\ abspath(s) \notin DOMAIN database["files"]
            /\ verify_file_on(database, disk, s, mode).value = "unknown"

\* a removed path whose file is on disk and readable
C7_Witness ==
    /\ F1 \in removed /\ HasFiles(database) /\ ~Tracked(F1)
    /\ Readable(F1)

\* C8 as stated: remove_file returns true exactly when the store held a
\* record for the path, whatever else is the case.
C8_RemoveReportsExistence ==
    \A s \in Spellings, mode \in WriteModes :
        (HasFiles(database) /\ "metadata" \in DOMAIN database) =>
            (remove_file_on(database, disk, s, mode).value = "True"
                <=> abspath(s) \in DOMAIN database["files"])

\* C9: the file written by export_database, imported with merge off into a
\* fresh store, gives the paths and the records of the exporting store.
C9_ExportImportRoundTrip ==
    \A mode \in WriteModes :
        (ext.kind = "json" /\ HasFiles(database)) =>
            LET r == import_database_on(load_database(Absent, now), Absent, ext, FALSE, mode)
            IN  /\ HasFiles(r.database)
                /\ DOMAIN r.database["files"] = DOMAIN database["files"]
                /\ \A p \in DOMAIN database["files"] :
                        r.database["files"][p] = database["files"][p]

\* an exported store of two records, one of them marked tampered
C9_Witness ==
    /\ ext.kind = "json" /\ Tracked(F1) /\ Tracked(F2)
    /\ added[F1] # Unset /\ "tampered_date" \in DOMAIN Record(F1)

\* C10: a successful import_database with merge on gives every path of the
\* source the source's record, leaves the records of the other paths as they
\* were, and adds no other path.
C10_MergeOverwritesAndKeeps ==
    \A file \in ExternalFiles, mode \in WriteModes :
        LET r == import_database_on(database, disk, file, TRUE, mode)
            src == DictGet(file.doc, "files", EmptyDict)
        IN  r.value = "True" =>
                /\ HasFiles(r.database)
                /\ DOMAIN r.database["files"] = DOMAIN database["files"] \cup DOMAIN src
                /\ \A p \in DOMAIN src : r.database["files"][p] = src[p]
                /\ \A p \in DOMAIN database["files"] \ DOMAIN src :
                        r.database["files"][p] = database["files"][p]

\* a record made by add_file beside one that a merge brought
C10_Witness ==
    /\ Tracked(F1) /\ added[F1] # Unset /\ Record(F1) # TrackedRecord
    /\ Tracked(F2) /\ Record(F2) = TrackedRecord
    /\ "metadata" \in DOMAIN database

\* a store file that exists and is not a store: invalid syntax, or JSON
\* without a files mapping or without a metadata mapping
Malformed(file) ==
    \/ file.kind = "garbage"
    \/ file.kind = "json" /\ ~({"files", "metadata"} \subseteq DOMAIN file.doc)

\* C13 as stated: loading a malformed store file gives a store with an empty
\* files mapping and a metadata mapping holding created, and every add_file,
\* verify_file, verify_all_files, remove_file and list_files call after it
\* completes with a result.
C13_MalformedStoreLoadsFresh ==
    /\ \A file \in LoadedFiles :
            Malformed(file) =>
                LET db == load_database(file, now)
                IN  /\ HasFiles(db) /\ db["files"] = EmptyDict
                    /\ "metadata" \in DOMAIN db /\ "created" \in DOMAIN db["metadata"]
    /\ HasFiles(database)
    /\ ~list_files_raises(database)
    /\ \A s \in Spellings, mode \in WriteModes :
            /\ verify_file_on(database, disk, s, mode).value # "KeyError"
            /\ remove_file_on(database, disk, s, mode).value # "KeyError"
            /\ \A description \in Descriptions :
                    add_file_on(database, disk, s, description, mode).value # "KeyError"

\* C20: with no import, every record of the store has status verified or
\* tampered, a check_count of at least 1, and a tampered_date when its status
\* is tampered.
C20_RecordsWellFormed ==
    /\ HasFiles(database)
    /\ \A p \in DOMAIN database["files"] :
            LET rec == database["files"][p]
            IN  /\ {"status", "check_count"} \subseteq DOMAIN rec
                /\ rec.status \in {"verified", "tampered"}
                /\ rec.check_count >= 1
                /\ rec.status = "tampered" => "tampered_date" \in DOMAIN rec

\* a record found tampered twice since add_file made it
C20_Witness ==
    /\ Tracked(F1) /\ added[F1] # Unset
    /\ Record(F1).status = "tampered" /\ Record(F1).check_count = 3
    /\ "tampered_date" \in DOMAIN Record(F1)

\* C14 as stated: every key of the files mapping is a canonical absolute
\* path, no two keys resolve to the same file, and add_file through any
\* spelling writes the record of the resolved path and no other.
C14_KeysCanonical ==
    HasFiles(database) =>
        /\ \A k \in DOMAIN database["files"] : abspath(k) = k
        /\ \A k1, k2 \in DOMAIN database["files"] : abspath(k1) = abspath(k2) => k1 = k2
        /\ \A s \in Spellings, description \in Descriptions, mode \in WriteModes :
                LET r == add_file_on(database, disk, s, description, mode)
                IN  r.assigned =>
                        DOMAIN r.database["files"] = DOMAIN database["files"] \cup {abspath(s)}

\* C15: verify_file computes the current digest with the algorithm of the
\* record, sha256 when the record names none: a record whose hash is the
\* digest of the file's content under that algorithm verifies as verified,
\* and any other hash as tampered against the digest under that algorithm.
C15_VerifiesWithRecordAlgorithm ==
    \A s \in Spellings, mode \in WriteModes :
        LET p == abspath(s)
            r == verify_file_on(database, disk, s, mode)
        IN  (Tracked(p) /\ Readable(p) /\ "hash" \in DOMAIN Record(p)) =>
                LET algorithm == DictGet(Record(p), "algorithm", "sha256")
                    digest == hexdigest(algorithm, fs[p].content)
                IN  algorithm \in SupportedAlgorithms =>
                        IF Record(p).hash = digest
                        THEN r.value = "verified" /\ r.info.hash = digest
                        ELSE r.value = "tampered" /\ r.info.current_hash = digest

\* an md5 record verified against the content its digest was made of
C15_Witness ==
    /\ Tracked(F1) /\ Readable(F1)
    /\ DictGet(Record(F1), "algorithm", "sha256") = "md5"
    /\ Record(F1).hash = hexdigest("md5", fs[F1].content)
    /\ Record(F1).check_count >= 2 /\ lastCheck[F1] = "match"

\* C16 as stated: verify_all_files returns one entry per key of the files
\* mapping, the entry of a key being what verify_file returns for the record
\* under it and never unknown, and leaves the keys of the mapping as they were.
C16_VerifyAllClassifiesEveryKey ==
    HasFiles(database) =>
        \A order \in Orders(DOMAIN database["files"]), mode \in WriteModes :
            LET w == verify_all_on([database |-> database, disk |-> disk,
                                    results |-> EmptyDict, history |-> History,
                                    raised |-> FALSE], order, mode)
            IN  /\ ~w.raised
                /\ DOMAIN w.results = DOMAIN database["files"]
                /\ DOMAIN w.database["files"] = DOMAIN database["files"]
                /\ \A p \in DOMAIN database["files"] :
                        /\ w.results[p].status # "unknown"
                        /\ w.results[p].status = verify_file_on(database, disk, p, mode).value

\* the fields of a record verify_file may write
Mutable == {"status", "last_checked", "tampered_date", "check_count"}

\* C17: verify_file writes at most status, last_checked, tampered_date and
\* check_count of the record of its path and metadata.last_updated; every
\* other field of that record, every other record and every other part of
\* the store is as it was, whatever the call returns.
C17_VerifyFrame ==
    \A s \in Spellings, mode \in WriteModes :
        LET p == abspath(s)
            r == verify_file_on(database, disk, s, mode)
        IN  /\ DOMAIN r.database = DOMAIN database
            /\ \A k \in DOMAIN database \ {"files", "metadata"} : r.database[k] = database[k]
            /\ "metadata" \in DOMAIN database =>
                    /\ DOMAIN r.database["metadata"] \ {"last_updated"}
                            = DOMAIN database["metadata"] \ {"last_updated"}
                    /\ \A k \in DOMAIN database["metadata"] \ {"last_updated"} :
                            r.database["metadata"][k] = database["metadata"][k]
            /\ HasFiles(database) =>
                    /\ DOMAIN r.database["files"] = DOMAIN database["files"]
                    /\ \A k \in DOMAIN database["files"] \ {p} :
                            r.database["files"][k] = database["files"][k]
                    /\ p \in DOMAIN database["files"] =>
                            /\ DOMAIN r.database["files"][p] \ Mutable = DOMAIN Record(p) \ Mutable
                            /\ \A f \in DOMAIN Record(p) \ Mutable :
                                    r.database["files"][p][f] = Record(p)[f]

\* a record verify_file found tampered, beside a record under another key
C17_Witness ==
    /\ Tracked(F1) /\ lastCheck[F1] = "mismatch" /\ Record(F1).status = "tampered"
    /\ Cardinality(DOMAIN database["files"]) = 2
    /\ Readable(F1)

\* C18: when the second checker loaded the store before the first one's
\* add_file was saved, and both add_file calls (on different files, every
\* write succeeding) returned true, the store file holds the record of only
\* one of the two files: the update of the checker that saved first is lost.
C18_LostUpdate ==
    (/\ added[F1] # Unset
     /\ other.pc = "done" /\ other.value = "True"
     /\ F1 \notin DOMAIN other.database["files"]) =>
        /\ disk.kind = "json"
        /\ (F1 \in DOMAIN disk.doc["files"]) # (F2 \in DOMAIN disk.doc["files"])

\* both calls returned true and the store file holds the second record only,
\* while the first checker's in-memory store holds the first
C18_Witness ==
    /\ added[F1] # Unset /\ Tracked(F1)
    /\ other.pc = "done" /\ other.value = "True"
    /\ F1 \notin DOMAIN other.database["files"]
    /\ DOMAIN disk.doc["files"] = {F2}

\* C11 as stated: an import_database call that does not return true leaves
\* the in-memory store as it was before the call, merge on or off.
C11_FailedImportLeavesStore ==
    \A file \in ExternalFiles, merge \in BOOLEAN, mode \in WriteModes :
        LET r == import_database_on(database, disk, file, merge, mode)
        IN  r.value # "True" => r.database = database

\* a call that wrote its mutation to the store file, or reported failure and
\* left the store file as it was
PersistedOrReported(r, succeeded) ==
    IF succeeded THEN r.disk = json_dump(r.database) ELSE r.disk = disk

\* C12 as stated: every add_file, verify_file, remove_file and
\* import_database call either succeeds with the store file holding the
\* store after it, or reports failure with the store file holding what it
\* held before the call.
C12_PersistedOrReported ==
    \A s \in Spellings, mode \in WriteModes :
        /\ \A description \in Descriptions :
                LET r == add_file_on(database, disk, s, description, mode)
                IN  PersistedOrReported(r, r.value = "True")
        /\ LET r == verify_file_on(database, disk, s, mode)
           IN  PersistedOrReported(r, r.value \in {"verified", "tampered"})
        /\ LET r == remove_file_on(database, disk, s, mode)
           IN  PersistedOrReported(r, r.value = "True")
        /\ \A file \in ExternalFiles, merge \in BOOLEAN :
                LET r == import_database_on(database, disk, file, merge, mode)
                IN  PersistedOrReported(r, r.value = "True")

\* C19 as stated: after an add_file, remove_file or import_database call that
\* returns true, and after a verify_file call that returns verified or
\* tampered, the store file holds the in-memory store.
C19_StoreFileMatchesMemory ==
    \A s \in Spellings, mode \in WriteModes :
        /\ \A description \in Descriptions :
                LET r == add_file_on(database, disk, s, description, mode)
                IN  r.value = "True" => r.disk = json_dump(r.database)
        /\ LET r == remove_file_on(database, disk, s, mode)
           IN  r.value = "True" => r.disk = json_dump(r.database)
        /\ \A file \in ExternalFiles, merge \in BOOLEAN :
                LET r == import_database_on(database, disk, file, merge, mode)
                IN  r.value = "True" => r.disk = json_dump(r.database)
        /\ LET r == verify_file_on(database, disk, s, mode)
           IN  r.value \in {"verified", "tampered"} => r.disk = json_dump(r.database)

====
